---- MODULE Spec2Model ----
(***************************************************************************)
(* A/B Test Planner: the calculator page (src/app/page.tsx) and its        *)
(* earlier variant (src/unnamed/part_000).                                 *)
(*                                                                         *)
(* The page keeps six raw text inputs, validates them, and computes a      *)
(* sample size and a duration with JavaScript `number` arithmetic.         *)
(*                                                                         *)
(* JavaScript numbers are binary floating-point values with a fixed-width  *)
(* significand, round-to-nearest-even, +/-Infinity and NaN.  The model     *)
(* keeps exactly that arithmetic, with the width of the significand named  *)
(* MantissaBits (53 in the program; smaller here so that every             *)
(* intermediate value fits the model checker's integers).  Every           *)
(* arithmetic operator of the source is translated to the operator of the  *)
(* same name below, each one rounding its exact result.  Signed zero is    *)
(* not distinguished (no comparison or test in the program observes it).   *)
(***************************************************************************)
EXTENDS Integers, Naturals, Sequences, FiniteSets, TLC

\* Width of the significand, in bits.
MantissaBits == 14

TwoP == 2^MantissaBits
HalfP == 2^(MantissaBits - 1)
\* Exponent range of binary64: the largest finite value is below 2^1024,
\* the smallest normal value is 2^-1022.
EMin == -1022 - (MantissaBits - 1)
EMax == 1024 - MantissaBits

\* A finite number is s * m * 2^e with m = 0, or HalfP <= m < TwoP, or
\* (subnormal) m < HalfP at e = EMin.
NaN == [k |-> "nan", s |-> 1, m |-> 0, e |-> 0]
Inf(s) == [k |-> "inf", s |-> s, m |-> 0, e |-> 0]
Fin(s, m, e) == [k |-> "fin", s |-> s, m |-> m, e |-> e]
Zero == Fin(1, 0, EMin)

IsNaN(a) == a.k = "nan"
IsZero(a) == a.k = "fin" /\ a.m = 0
\* Number.isFinite
IsFinite(a) == a.k = "fin"

RECURSIVE Normalize(_, _, _, _)
\* Brings the exact value (M + fraction) * 2^E into the significand width:
\* g is the last bit shifted out, st records whether any lower bit was set.
Normalize(M, E, g, st) ==
    IF M >= TwoP \/ (E < EMin /\ M > 0)
    THEN Normalize(M \div 2, E + 1, M % 2, IF g = 1 \/ st = 1 THEN 1 ELSE 0)
    ELSE IF E < EMin
    THEN <<0, EMin, 0, IF g = 1 \/ st = 1 THEN 1 ELSE 0>>
    ELSE IF M > 0 /\ M < HalfP /\ E > EMin /\ g = 0 /\ st = 0
    THEN Normalize(M * 2, E - 1, 0, 0)
    ELSE <<M, E, g, st>>

\* Overflow gives Infinity, underflow Zero.
Ranged(s, m, e) ==
    IF m = 0 THEN Zero
    ELSE IF e > EMax THEN Inf(s)
    ELSE Fin(s, m, e)

\* Round to nearest, ties to even: n is <<M, E, g, st>> from Normalize.
Round(s, n) ==
    IF n[3] = 1 /\ (n[4] = 1 \/ n[1] % 2 = 1)
    THEN (IF n[1] + 1 = TwoP THEN Ranged(s, HalfP, n[2] + 1)
          ELSE Ranged(s, n[1] + 1, n[2]))
    ELSE Ranged(s, n[1], n[2])

\* The number nearest to s * (M0 + fraction) * 2^E0; st0 = 1 says the
\* fraction is not zero (M0 then has two bits more than the significand).
Pack(s, M0, E0, st0) == Round(s, Normalize(M0, E0, 0, st0))

\* The number nearest to (S + fraction) * 2^e for a signed integer S.
PackSigned(S, e, st) ==
    IF S = 0 THEN Zero
    ELSE Pack(IF S < 0 THEN -1 ELSE 1, IF S < 0 THEN -S ELSE S, e, st)

FromInt(n) == PackSigned(n, 0, 0)

\* unary minus
Neg(a) == IF IsNaN(a) \/ IsZero(a) THEN a ELSE [a EXCEPT !.s = -a.s]
\* Math.abs
Abs(a) == IF IsNaN(a) THEN a ELSE [a EXCEPT !.s = 1]

MagLt(a, b) ==
    IF a.k = "inf" THEN FALSE
    ELSE IF b.k = "inf" THEN TRUE
    ELSE a.e < b.e \/ (a.e = b.e /\ a.m < b.m)

\* a < b, a <= b, a > b, a >= b, a === b : all false when either side is NaN
Lt(a, b) ==
    /\ ~IsNaN(a) /\ ~IsNaN(b)
    /\ IF a.s = 1 /\ b.s = 1 THEN MagLt(a, b)
       ELSE IF a.s = -1 /\ b.s = -1 THEN MagLt(b, a)
       ELSE a.s = -1
Eq(a, b) == ~IsNaN(a) /\ ~IsNaN(b) /\ a = b
Le(a, b) == Lt(a, b) \/ Eq(a, b)
Gt(a, b) == Lt(b, a)
\* A faulty >=: equal operands do not count.
GeWithoutEquality(a, b) == Lt(b, a)
Ge(a, b) == Le(b, a)

\* hi + lo for finite non-zero operands with hi.e >= lo.e.  When the
\* exponents are far apart lo is below a quarter of hi's last place and
\* only decides the rounding.
AddAligned(hi, lo) ==
    IF hi.e - lo.e <= MantissaBits + 1
    THEN PackSigned(hi.s * hi.m * 2^(hi.e - lo.e) + lo.s * lo.m, lo.e, 0)
    ELSE PackSigned(hi.s * (IF hi.s = lo.s THEN hi.m * 4 ELSE hi.m * 4 - 1), hi.e - 2, 1)

\* a + b
Add(a, b) ==
    IF IsNaN(a) \/ IsNaN(b) THEN NaN
    ELSE IF a.k = "inf" THEN (IF b.k = "inf" /\ b.s # a.s THEN NaN ELSE a)
    ELSE IF b.k = "inf" THEN b
    ELSE IF a.m = 0 THEN b
    ELSE IF b.m = 0 THEN a
    ELSE AddAligned(IF a.e >= b.e THEN a ELSE b, IF a.e >= b.e THEN b ELSE a)

\* a - b
Sub(a, b) == Add(a, Neg(b))

\* a * b
Mul(a, b) ==
    IF IsNaN(a) \/ IsNaN(b) THEN NaN
    ELSE IF a.k = "inf" \/ b.k = "inf"
    THEN (IF IsZero(a) \/ IsZero(b) THEN NaN ELSE Inf(a.s * b.s))
    ELSE IF a.m = 0 \/ b.m = 0 THEN Zero
    ELSE Pack(a.s * b.s, a.m * b.m, a.e + b.e, 0)

RECURSIVE RatioBits(_, _, _, _)
\* Long division: one quotient bit per step until the quotient has two bits
\* more than the significand or the division is exact.
RatioBits(M, R, D, E) ==
    IF M >= 2 * TwoP \/ R = 0 THEN <<M, E, R>>
    ELSE IF 2 * R >= D THEN RatioBits(2 * M + 1, 2 * R - D, D, E - 1)
    ELSE RatioBits(2 * M, 2 * R, D, E - 1)

\* b is <<M, E, R>>: the bits produced, their exponent, and the remainder.
PackBits(s, b) == Pack(s, b[1], b[2], IF b[3] = 0 THEN 0 ELSE 1)

\* The number nearest to s * (N / D) * 2^E0, for integers N >= 0, D > 0.
Ratio(s, N, D, E0) == PackBits(s, RatioBits(N \div D, N % D, D, E0))

\* a / b
Div(a, b) ==
    IF IsNaN(a) \/ IsNaN(b) THEN NaN
    ELSE IF a.k = "inf" THEN (IF b.k = "inf" THEN NaN ELSE Inf(a.s * b.s))
    ELSE IF b.k = "inf" THEN Zero
    ELSE IF b.m = 0 THEN (IF a.m = 0 THEN NaN ELSE Inf(a.s * b.s))
    ELSE IF a.m = 0 THEN Zero
    ELSE Ratio(a.s * b.s, a.m, b.m, a.e - b.e)

RECURSIVE SqrtBits(_, _, _)
\* Digit-by-digit square root: appends one result bit per step.
SqrtBits(root, rem, E) ==
    IF root >= 2 * TwoP \/ rem = 0 THEN <<root, E, rem>>
    ELSE IF 4 * rem >= 4 * root + 1
    THEN SqrtBits(2 * root + 1, 4 * rem - (4 * root + 1), E - 1)
    ELSE SqrtBits(2 * root, 4 * rem, E - 1)

\* The integer part of the square root of X.
ISqrt(X) ==
    CHOOSE r \in 0..(2 * 2^((MantissaBits + 1) \div 2)) :
        r * r <= X /\ X < (r + 1) * (r + 1)

SqrtFrom(X, E, r0) == PackBits(1, SqrtBits(r0, X - r0 * r0, E \div 2))

\* The square root of X * 2^E, E even.
SqrtEven(X, E) == SqrtFrom(X, E, ISqrt(X))

\* Math.sqrt
Sqrt(a) ==
    IF IsNaN(a) THEN NaN
    ELSE IF IsZero(a) THEN Zero
    ELSE IF a.s = -1 THEN NaN
    ELSE IF a.k = "inf" THEN a
    ELSE SqrtEven(IF a.e % 2 = 0 THEN a.m ELSE 2 * a.m,
                  IF a.e % 2 = 0 THEN a.e ELSE a.e - 1)

\* Math.ceil
Ceil(a) ==
    IF a.k # "fin" \/ a.m = 0 \/ a.e >= 0 THEN a
    ELSE IF -a.e > MantissaBits THEN (IF a.s = 1 THEN FromInt(1) ELSE Zero)
    ELSE LET q == a.m \div 2^(-a.e)
             r == a.m % 2^(-a.e)
         IN  IF a.s = 1 THEN FromInt(IF r > 0 THEN q + 1 ELSE q)
             ELSE FromInt(-q)

\* Math.max (two arguments)
Max(a, b) ==
    IF IsNaN(a) \/ IsNaN(b) THEN NaN
    ELSE IF Lt(a, b) THEN b ELSE a

\* Math.min (two arguments)
Min(a, b) ==
    IF IsNaN(a) \/ IsNaN(b) THEN NaN
    ELSE IF Lt(b, a) THEN b ELSE a

\* Number.isInteger
IsInteger(a) ==
    /\ a.k = "fin"
    /\ \/ a.m = 0
       \/ a.e >= 0
       \/ (-a.e < MantissaBits /\ a.m % 2^(-a.e) = 0)


(***************************************************************************)
(* Number(string): surrounding blanks are dropped, the empty string is 0,  *)
(* an optionally signed decimal literal is rounded to the nearest number,  *)
(* "Infinity" is Infinity and anything else is NaN.  The literals covered  *)
(* are digits with at most one "."; exponent and radix-prefixed literals   *)
(* are outside the inputs this model draws.  A literal is read to its      *)
(* first nine significant digits and scaled by its power of ten.           *)
(***************************************************************************)
IsSpace(c) == c = " "
IsDigit(c) == \E d \in 1..10 : SubSeq("0123456789", d, d) = c
DigitVal(c) == (CHOOSE d \in 1..10 : SubSeq("0123456789", d, d) = c) - 1

RECURSIVE TrimStart(_)
TrimStart(str) ==
    IF Len(str) > 0 /\ IsSpace(SubSeq(str, 1, 1))
    THEN TrimStart(SubSeq(str, 2, Len(str))) ELSE str

RECURSIVE TrimEnd(_)
TrimEnd(str) ==
    IF Len(str) > 0 /\ IsSpace(SubSeq(str, Len(str), Len(str)))
    THEN TrimEnd(SubSeq(str, 1, Len(str) - 1)) ELSE str

\* String.prototype.trim
Trim(str) == TrimEnd(TrimStart(str))

RECURSIVE ScanDecimal(_, _, _)
\* acc.N: the significant digits read, acc.k: how many of them follow the
\* point, acc.drop: integer digits beyond the ninth significant one.
ScanDecimal(str, i, acc) ==
    IF i > Len(str) \/ ~acc.ok THEN acc
    ELSE LET c == SubSeq(str, i, i)
         IN  IF c = "."
             THEN ScanDecimal(str, i + 1, [acc EXCEPT !.ok = ~acc.dot, !.dot = TRUE])
             ELSE IF ~IsDigit(c) THEN [acc EXCEPT !.ok = FALSE]
             ELSE IF acc.nd < 9
             THEN LET N1 == acc.N * 10 + DigitVal(c)
                  IN  ScanDecimal(str, i + 1,
                        [acc EXCEPT !.N = N1,
                                    !.nd = IF N1 > 0 THEN acc.nd + 1 ELSE 0,
                                    !.k = IF acc.dot THEN acc.k + 1 ELSE acc.k,
                                    !.digits = acc.digits + 1])
             ELSE ScanDecimal(str, i + 1,
                        [acc EXCEPT !.drop = IF acc.dot THEN acc.drop ELSE acc.drop + 1,
                                    !.digits = acc.digits + 1])

RECURSIVE ScalePow10(_, _)
\* x * 10^j, at most nine decimal places at a time.
ScalePow10(x, j) ==
    IF j = 0 THEN x
    ELSE IF j > 0
    THEN ScalePow10(Mul(x, FromInt(10^(IF j >= 9 THEN 9 ELSE j))),
                    IF j >= 9 THEN j - 9 ELSE 0)
    ELSE ScalePow10(Div(x, FromInt(10^(IF j <= -9 THEN 9 ELSE -j))),
                    IF j <= -9 THEN j + 9 ELSE 0)

\* The number nearest to s * N / 10^k, for k <= 9.
Dec(s, N, k) == Ratio(s, N, 10^k, 0)

\* The number nearest to s * N * 10^drop / 10^k.
DecimalToNumber(s, N, k, drop) ==
    IF N = 0 THEN Zero
    ELSE ScalePow10(Dec(s, N, IF k <= 9 THEN k ELSE 9),
                    IF k <= 9 THEN drop ELSE 9 - k)

FromScan(s, acc) ==
    IF ~acc.ok \/ acc.digits = 0 THEN NaN
    ELSE DecimalToNumber(s, acc.N, acc.k, acc.drop)

\* The literal after its sign.
ParseUnsigned(s, body) ==
    IF body = "Infinity" THEN Inf(s)
    ELSE FromScan(s, ScanDecimal(body, 1,
            [ok |-> TRUE, N |-> 0, nd |-> 0, k |-> 0, drop |-> 0,
             dot |-> FALSE, digits |-> 0]))

ParseTrimmed(t) ==
    IF Len(t) = 0 THEN Zero
    ELSE ParseUnsigned(IF SubSeq(t, 1, 1) = "-" THEN -1 ELSE 1,
                       IF SubSeq(t, 1, 1) \in {"+", "-"} THEN SubSeq(t, 2, Len(t)) ELSE t)

\* Number(str)
StringToNumber(str) == ParseTrimmed(Trim(str))

RECURSIVE NormUp(_, _)
NormUp(m, e) == IF m >= HalfP THEN <<m, e>> ELSE NormUp(2 * m, e - 1)

\* 1 + x/3 + x^2/5 + x^3/7 + x^4/9
AtanhPoly(x) ==
    Add(Mul(Add(Mul(Add(Mul(Add(Mul(
        Div(FromInt(1), FromInt(9)), x),
        Div(FromInt(1), FromInt(7))), x),
        Div(FromInt(1), FromInt(5))), x),
        Div(FromInt(1), FromInt(3))), x), FromInt(1))

\* atanh(t) for small t
Atanh(t) == Mul(t, AtanhPoly(Mul(t, t)))

\* ln(f * 2^k) = k * ln 2 + 2 * atanh((f - 1) / (f + 1))
LogParts(f, k) ==
    Add(Mul(FromInt(k), Dec(1, 693147181, 9)),
        Mul(FromInt(2), Atanh(Div(Sub(f, FromInt(1)), Add(f, FromInt(1))))))

\* n is <<m, e>> with a full-width m; f is taken between 1/sqrt(2) and sqrt(2).
LogNorm(n) ==
    IF n[1] * n[1] > 2 * HalfP * HalfP
    THEN LogParts(Fin(1, n[1], -MantissaBits), n[2] + MantissaBits)
    ELSE LogParts(Fin(1, n[1], -(MantissaBits - 1)), n[2] + MantissaBits - 1)

\* Math.log, every step in the arithmetic above.
Log(a) ==
    IF IsNaN(a) THEN NaN
    ELSE IF IsZero(a) THEN Inf(-1)
    ELSE IF a.s = -1 THEN NaN
    ELSE IF a.k = "inf" THEN a
    ELSE LogNorm(NormUp(a.m, a.e))

(***************************************************************************)
(* The statistical core                                                    *)
(***************************************************************************)
FORM_VALUE_KEYS ==
    <<"baselineRate", "minDetectableUplift", "significance", "power",
      "dailyVisitors", "variantTraffic">>

FieldKeys == {FORM_VALUE_KEYS[i] : i \in 1..Len(FORM_VALUE_KEYS)}

DEFAULT_VALUES ==
    [baselineRate |-> "8", minDetectableUplift |-> "10", significance |-> "5",
     power |-> "80", dailyVisitors |-> "12000", variantTraffic |-> "50"]

\* The outcome of a call that ended in `throw new Error(...)`.
Thrown == [k |-> "throw", s |-> 1, m |-> 0, e |-> 0]
IsThrown(a) == a.k = "throw"

\* The coefficients of the source, to nine significant digits or nine
\* decimal places (more than the significand resolves).
a1 == Dec(-1, 396968303, 7)
a2 == Dec(1, 220946098, 6)
a3 == Dec(-1, 275928510, 6)
a4 == Dec(1, 138357752, 6)
a5 == Dec(-1, 306647981, 7)
a6 == Dec(1, 250662828, 8)

b1 == Dec(-1, 544760988, 7)
b2 == Dec(1, 161585837, 6)
b3 == Dec(-1, 155698980, 6)
b4 == Dec(1, 668013119, 7)
b5 == Dec(-1, 132806816, 7)

c1 == Dec(-1, 7784894, 9)
c2 == Dec(-1, 322396458, 9)
c3 == Dec(-1, 240075828, 8)
c4 == Dec(-1, 254973254, 8)
c5 == Dec(1, 437466414, 8)
c6 == Dec(1, 293816398, 8)

d1 == Dec(1, 7784696, 9)
d2 == Dec(1, 322467129, 9)
d3 == Dec(1, 244513414, 8)
d4 == Dec(1, 375440866, 8)

pLow == Dec(1, 24250000, 9)
pHigh == Sub(FromInt(1), pLow)

\* The rational function shared by the two tail branches.
TailRatio(q) ==
    Div(Add(Mul(Add(Mul(Add(Mul(Add(Mul(Add(Mul(c1, q), c2), q), c3), q), c4), q), c5), q), c6),
        Add(Mul(Add(Mul(Add(Mul(Add(Mul(d1, q), d2), q), d3), q), d4), q), FromInt(1)))

\* The central branch: q = probability - 0.5, r = q * q.
CentralRatio(q, r) ==
    Div(Mul(Add(Mul(Add(Mul(Add(Mul(Add(Mul(Add(Mul(a1, r), a2), r), a3), r), a4), r), a5), r), a6), q),
        Add(Mul(Add(Mul(Add(Mul(Add(Mul(Add(Mul(b1, r), b2), r), b3), r), b4), r), b5), r), FromInt(1)))

\* A faulty central branch: the factor q of the numerator is left out.
CentralWithoutFactorQ(q) == CentralRatio(FromInt(1), Mul(q, q))

Central(q) == CentralRatio(q, Mul(q, q))

\* In the domain check a NaN probability fails both comparisons and goes on.
inverseNormalCdf(probability) ==
    IF Le(probability, Zero) \/ Ge(probability, FromInt(1)) THEN Thrown
    ELSE IF Lt(probability, pLow)
    THEN TailRatio(Sqrt(Mul(FromInt(-2), Log(probability))))
    ELSE IF Gt(probability, pHigh)
    THEN Neg(TailRatio(Sqrt(Mul(FromInt(-2), Log(Sub(FromInt(1), probability))))))
    ELSE Central(Sub(probability, Dec(1, 5, 1)))

parseValues(values) ==
    [baselineRate |-> Div(StringToNumber(values.baselineRate), FromInt(100)),
     uplift |-> Div(StringToNumber(values.minDetectableUplift), FromInt(100)),
     significance |-> Div(StringToNumber(values.significance), FromInt(100)),
     power |-> Div(StringToNumber(values.power), FromInt(100)),
     dailyVisitors |-> StringToNumber(values.dailyVisitors),
     variantTraffic |-> Div(StringToNumber(values.variantTraffic), FromInt(100))]

\* A faulty numerator: the factor 2 of the pooled variance is missing.
NumeratorWithoutFactorTwo(p1, p2, pooled, zAlpha, zBeta) ==
    Add(Mul(zAlpha, Sqrt(Mul(pooled, Sub(FromInt(1), pooled)))),
        Mul(zBeta, Sqrt(Add(Mul(p1, Sub(FromInt(1), p1)), Mul(p2, Sub(FromInt(1), p2))))))

\* const numerator = zAlpha * sqrt(2 pooled (1 - pooled)) + zBeta * sqrt(p1 (1 - p1) + p2 (1 - p2))
Numerator(p1, p2, pooled, zAlpha, zBeta) ==
    Add(Mul(zAlpha, Sqrt(Mul(Mul(FromInt(2), pooled), Sub(FromInt(1), pooled)))),
        Mul(zBeta, Sqrt(Add(Mul(p1, Sub(FromInt(1), p1)), Mul(p2, Sub(FromInt(1), p2))))))

\* Math.ceil((numerator * numerator) / (diff * diff))
CeilSquareRatio(numerator, diff) ==
    Ceil(Div(Mul(numerator, numerator), Mul(diff, diff)))

\* sampleSizePerGroup, from pooled = (p1 + p2) / 2 and diff = |p2 - p1|
SampleSize(p1, p2, zAlpha, zBeta) ==
    CeilSquareRatio(Numerator(p1, p2, Div(Add(p1, p2), FromInt(2)), zAlpha, zBeta),
                    Abs(Sub(p2, p1)))

\* A faulty duration: the arm that fills first decides.
CeilOfFasterArm(sampleSizePerGroup, controlDaily, variantDaily) ==
    Ceil(Min(Div(sampleSizePerGroup, controlDaily), Div(sampleSizePerGroup, variantDaily)))

\* Math.ceil(Math.max(sampleSizePerGroup / controlDaily, sampleSizePerGroup / variantDaily))
CeilMax(sampleSizePerGroup, controlDaily, variantDaily) ==
    Ceil(Max(Div(sampleSizePerGroup, controlDaily), Div(sampleSizePerGroup, variantDaily)))

\* durationDays, from controlShare = 1 - variantTraffic and variantShare = variantTraffic
DurationDays(sampleSizePerGroup, dailyVisitors, variantTraffic) ==
    CeilMax(sampleSizePerGroup,
            Mul(dailyVisitors, Sub(FromInt(1), variantTraffic)),
            Mul(dailyVisitors, variantTraffic))

\* A faulty record: the total is not doubled.
ResultRecordOfOneArm(sampleSizePerGroup, durationDays, p2) ==
    [threw |-> FALSE,
     sampleSizePerGroup |-> sampleSizePerGroup,
     totalSampleSize |-> sampleSizePerGroup,
     durationDays |-> durationDays,
     expectedVariantRate |-> p2]

\* The returned record.
ResultRecord(sampleSizePerGroup, durationDays, p2) ==
    [threw |-> FALSE,
     sampleSizePerGroup |-> sampleSizePerGroup,
     totalSampleSize |-> Mul(sampleSizePerGroup, FromInt(2)),
     durationDays |-> durationDays,
     expectedVariantRate |-> p2]

ResultFromSampleSize(parsed, p2, sampleSizePerGroup) ==
    ResultRecord(sampleSizePerGroup,
                 DurationDays(sampleSizePerGroup, parsed.dailyVisitors, parsed.variantTraffic),
                 p2)

\* An Error thrown by either quantile call leaves calculateResult.
ResultFromQuantiles(parsed, p2, zAlpha, zBeta) ==
    IF IsThrown(zAlpha) \/ IsThrown(zBeta) THEN [threw |-> TRUE]
    ELSE ResultFromSampleSize(parsed, p2, SampleSize(parsed.baselineRate, p2, zAlpha, zBeta))

ResultFromP2(parsed, p2) ==
    ResultFromQuantiles(parsed, p2,
        inverseNormalCdf(Sub(FromInt(1), Div(parsed.significance, FromInt(2)))),
        inverseNormalCdf(parsed.power))

\* Either [threw |-> TRUE] (an Error left the function) or the Result record.
calculateResult(parsed) ==
    ResultFromP2(parsed, Mul(parsed.baselineRate, Add(FromInt(1), parsed.uplift)))

(***************************************************************************)
(* The same computation as written inside runCalculation of the earlier    *)
(* page variant (src/unnamed/part_000), which has no calculateResult.      *)
(***************************************************************************)
InlineResult(parsed, p2, sampleSizePerGroup, controlDaily, variantDaily) ==
    [threw |-> FALSE,
     sampleSizePerGroup |-> sampleSizePerGroup,
     totalSampleSize |-> Mul(sampleSizePerGroup, FromInt(2)),
     durationDays |->
        Ceil(Max(Div(sampleSizePerGroup, controlDaily), Div(sampleSizePerGroup, variantDaily))),
     expectedVariantRate |-> p2]

InlineSampleSize(parsed, p2, numerator, diff) ==
    InlineResult(parsed, p2,
        Ceil(Div(Mul(numerator, numerator), Mul(diff, diff))),
        Mul(parsed.dailyVisitors, Sub(FromInt(1), parsed.variantTraffic)),
        Mul(parsed.dailyVisitors, parsed.variantTraffic))

InlineNumerator(parsed, p1, p2, zAlpha, zBeta, pooled) ==
    IF IsThrown(zAlpha) \/ IsThrown(zBeta) THEN [threw |-> TRUE]
    ELSE InlineSampleSize(parsed, p2,
            Add(Mul(zAlpha, Sqrt(Mul(Mul(FromInt(2), pooled), Sub(FromInt(1), pooled)))),
                Mul(zBeta, Sqrt(Add(Mul(p1, Sub(FromInt(1), p1)), Mul(p2, Sub(FromInt(1), p2)))))),
            Abs(Sub(p2, p1)))

InlineQuantiles(parsed, p1, p2, alpha) ==
    InlineNumerator(parsed, p1, p2,
        inverseNormalCdf(Sub(FromInt(1), Div(alpha, FromInt(2)))),
        inverseNormalCdf(parsed.power),
        Div(Add(p1, p2), FromInt(2)))

runCalculationInline(parsed) ==
    InlineQuantiles(parsed, parsed.baselineRate,
        Mul(parsed.baselineRate, Add(FromInt(1), parsed.uplift)),
        parsed.significance)

NoErrors == [f \in FieldKeys |-> ""]

\* hasFieldErrors || nextGlobalError, on the record validate returned
failsValidation(v) ==
    (\E f \in FieldKeys : v.nextErrors[f] # "") \/ v.nextGlobalError # ""

\* A faulty rate: the uplift is taken as a fraction, not a percentage.
expectedVariantRateOfFraction(baselineRate, uplift) ==
    Mul(Div(baselineRate, FromInt(100)), Add(FromInt(1), uplift))

\* const expectedVariantRate = (baselineRate / 100) * (1 + uplift / 100)
expectedVariantRate(baselineRate, uplift) ==
    Mul(Div(baselineRate, FromInt(100)), Add(FromInt(1), Div(uplift, FromInt(100))))

\* The six per-field checks, on the numbers Number() returned.
nextErrors(baselineRate, uplift, significance, power, dailyVisitors, variantTraffic) ==
    [baselineRate |->
        IF ~IsFinite(baselineRate) \/ Le(baselineRate, Zero) \/ Ge(baselineRate, FromInt(100))
        THEN "Enter a value between 0 and 100 (exclusive)." ELSE "",
     minDetectableUplift |->
        IF ~IsFinite(uplift) \/ Le(uplift, Zero) \/ Gt(uplift, FromInt(500))
        THEN "Enter uplift between 0 and 500%." ELSE "",
     significance |->
        IF ~IsFinite(significance) \/ Le(significance, Zero) \/ Ge(significance, FromInt(50))
        THEN "Enter significance between 0 and 50 (exclusive)." ELSE "",
     power |->
        IF ~IsFinite(power) \/ Le(power, FromInt(50)) \/ Ge(power, Dec(1, 999, 1))
        THEN "Enter power between 50 and 99.9 (exclusive)." ELSE "",
     dailyVisitors |->
        IF ~IsFinite(dailyVisitors) \/ Lt(dailyVisitors, FromInt(1)) \/ ~IsInteger(dailyVisitors)
        THEN "Enter an integer >= 1." ELSE "",
     variantTraffic |->
        IF ~IsFinite(variantTraffic) \/ Le(variantTraffic, Zero) \/ Ge(variantTraffic, FromInt(100))
        THEN "Enter a value between 0 and 100 (exclusive)." ELSE ""]

nextGlobalError(rate) ==
    IF IsFinite(rate) /\ Ge(rate, FromInt(1))
    THEN "Expected variant conversion rate reaches or exceeds 100%. Lower baseline or uplift."
    ELSE ""

\* The record validate returns, from the six numbers.
validateNumbers(baselineRate, uplift, significance, power, dailyVisitors, variantTraffic) ==
    [nextErrors |->
        nextErrors(baselineRate, uplift, significance, power, dailyVisitors, variantTraffic),
     nextGlobalError |-> nextGlobalError(expectedVariantRate(baselineRate, uplift)),
     parsed |->
        [baselineRate |-> Div(baselineRate, FromInt(100)),
         uplift |-> Div(uplift, FromInt(100)),
         significance |-> Div(significance, FromInt(100)),
         power |-> Div(power, FromInt(100)),
         dailyVisitors |-> dailyVisitors,
         variantTraffic |-> Div(variantTraffic, FromInt(100))]]

validate(nextValues) ==
    validateNumbers(StringToNumber(nextValues.baselineRate),
                    StringToNumber(nextValues.minDetectableUplift),
                    StringToNumber(nextValues.significance),
                    StringToNumber(nextValues.power),
                    StringToNumber(nextValues.dailyVisitors),
                    StringToNumber(nextValues.variantTraffic))

\* searchParams.get(key) is <<>> for null and <<text>> for a present value.
valuesFromSearchParams(searchParams) ==
    [key \in FieldKeys |->
        IF searchParams[key] # <<>> /\ searchParams[key][1] # ""
              /\ Trim(searchParams[key][1]) # ""
        THEN searchParams[key][1] ELSE DEFAULT_VALUES[key]]

readInitialValuesFromLocation(hasWindow, searchParams) ==
    IF ~hasWindow THEN DEFAULT_VALUES ELSE valuesFromSearchParams(searchParams)


(***************************************************************************)
(* The page: React state of Home and its event handlers.  shareStatus and  *)
(* the address bar are written by the handlers but read by none of them    *)
(* (the query string is read once, before the first render), so they are   *)
(* not part of the state below.                                            *)
(***************************************************************************)

\* Text a user types into a field.
InputTokens ==
    [baselineRate |-> {"8", "60"},
     minDetectableUplift |-> {"100", "500", "0.00000000000000001"},
     significance |-> {"5", "0.00000000000000001"},
     power |-> {"99.89", "99.9"},
     dailyVisitors |-> {"12000", "12.5"},
     variantTraffic |-> {"50", "20"}]

\* Values a query parameter of the initial URL may carry (besides being absent).
UrlTokens ==
    [baselineRate |-> {"abc", "60"},
     minDetectableUplift |-> {" ", "500"},
     significance |-> {""},
     power |-> {"100"},
     dailyVisitors |-> {"12.5"},
     variantTraffic |-> {"20"}]

SearchParams ==
    [baselineRate : {<<>>} \cup {<<t>> : t \in UrlTokens.baselineRate},
     minDetectableUplift : {<<>>} \cup {<<t>> : t \in UrlTokens.minDetectableUplift},
     significance : {<<>>} \cup {<<t>> : t \in UrlTokens.significance},
     power : {<<>>} \cup {<<t>> : t \in UrlTokens.power},
     dailyVisitors : {<<>>} \cup {<<t>> : t \in UrlTokens.dailyVisitors},
     variantTraffic : {<<>>} \cup {<<t>> : t \in UrlTokens.variantTraffic}]

VARIABLES
    variant,        \* "page" (src/app/page.tsx) or "part_000" (src/unnamed/part_000)
    mounted,        \* FALSE when the initial render threw
    values,         \* useState<FormValues>
    errors,         \* useState<Record<keyof FormValues, string>>
    globalError,    \* useState("")
    result,         \* useState<Result | null>
    lastRun,        \* what the latest event handler did: "none" (no
                    \* runCalculation, also before any event), "rejected"
                    \* (validation failed), "computed", or "threw" (an Error
                    \* left the handler)
    resultFrom,     \* the input values the held result was computed from
    history         \* the kind of the last event handled ("none" before the
                    \* first) and whether the form was ever submitted

calculatorVars ==
    <<variant, mounted, values, errors, globalError, result, lastRun,
      resultFrom, history>>

VARIABLES
    toggles,                \* useState<FeatureToggle[]>
    newToggleName,          \* useState("")
    newToggleDescription,   \* useState("")
    toggleError,            \* useState("")
    now,                    \* the latest reading of Date.now()
    events                  \* number of toggle events handled so far

toggleVars ==
    <<toggles, newToggleName, newToggleDescription, toggleError, now, events>>

VARIABLES
    shared,         \* the form values a share link was made from
    query,          \* the query string of the link, <<>> before it is made
    opened          \* the initial values of a page opened at the link

shareVars == <<shared, query, opened>>

VARIABLES
    probability,    \* an argument of inverseNormalCdf
    quantile        \* what the call returned, Null before the call

quantileVars == <<probability, quantile>>

vars == <<calculatorVars, toggleVars, shareVars, quantileVars>>

Null == [null |-> TRUE]

ResultOf(r) ==
    [sampleSizePerGroup |-> r.sampleSizePerGroup,
     totalSampleSize |-> r.totalSampleSize,
     durationDays |-> r.durationDays,
     expectedVariantRate |-> r.expectedVariantRate]

\* useMemo over errors and globalError
hasErrors == (\E f \in FieldKeys : errors[f] # "") \/ globalError # ""

\* useState initialisers of the page variant: the result starts as
\* calculateResult(parseValues(readInitialValuesFromLocation())).
InitPage(iv, r) ==
    /\ values = iv
    /\ lastRun = "none"
    /\ IF r.threw
       THEN /\ mounted = FALSE
            /\ result = Null
            /\ resultFrom = Null
       ELSE /\ mounted = TRUE
            /\ result = ResultOf(r)
            /\ resultFrom = iv

InitPageFrom(iv) == InitPage(iv, calculateResult(parseValues(iv)))

\* useState initialisers of the earlier variant
InitPart000 ==
    /\ values = DEFAULT_VALUES
    /\ result = Null
    /\ resultFrom = Null
    /\ lastRun = "none"
    /\ mounted = TRUE

\* A URL without query string.
NoSearchParams == [key \in FieldKeys |-> <<>>]

InitCalculator ==
    \E v \in {"page", "part_000"}, hasWindow \in BOOLEAN :
      \E sp \in (IF v = "page" /\ hasWindow THEN SearchParams ELSE {NoSearchParams}) :
        /\ variant = v
        /\ history = [last |-> "none", submitted |-> FALSE]
        /\ errors = NoErrors
        /\ globalError = ""
        /\ IF v = "part_000" THEN InitPart000
           ELSE InitPageFrom(readInitialValuesFromLocation(hasWindow, sp))

\* setResult(calculateResult(parsed)); when the computation throws, the
\* handler ends there and the result keeps its value.
setComputedResult(nextValues, r) ==
    IF r.threw
    THEN /\ UNCHANGED <<result, resultFrom>>
         /\ lastRun' = "threw"
    ELSE /\ result' = ResultOf(r)
         /\ resultFrom' = nextValues
         /\ lastRun' = "computed"

\* v is validate(nextValues).  State updates queued before an Error leaves
\* the handler are still applied.
runCalculationFrom(nextValues, v) ==
    /\ errors' = v.nextErrors
    /\ globalError' = v.nextGlobalError
    /\ IF failsValidation(v)
       THEN /\ result' = Null
            /\ resultFrom' = Null
            /\ lastRun' = "rejected"
       ELSE setComputedResult(nextValues,
                IF variant = "page" THEN calculateResult(v.parsed)
                ELSE runCalculationInline(v.parsed))

runCalculation(nextValues) == runCalculationFrom(nextValues, validate(nextValues))

handleSubmit ==
    /\ mounted
    /\ runCalculation(values)
    /\ history' = [last |-> "submit", submitted |-> TRUE]
    /\ UNCHANGED <<variant, mounted, values>>
    /\ UNCHANGED <<toggleVars, shareVars, quantileVars>>

updateValue(key, value) ==
    LET nextValues == [values EXCEPT ![key] = value]
    IN  /\ mounted
        /\ values' = nextValues
        /\ IF result # Null \/ hasErrors
           THEN runCalculation(nextValues)
           ELSE /\ UNCHANGED <<errors, globalError, result, resultFrom>>
                /\ lastRun' = "none"
        /\ history' = [history EXCEPT !.last = "edit"]
        /\ UNCHANGED <<variant, mounted>>
        /\ UNCHANGED <<toggleVars, shareVars, quantileVars>>

handleResetDefaults ==
    /\ mounted
    /\ variant = "page"
    /\ values' = DEFAULT_VALUES
    /\ runCalculation(DEFAULT_VALUES)
    /\ history' = [history EXCEPT !.last = "reset"]
    /\ UNCHANGED <<variant, mounted>>
    /\ UNCHANGED <<toggleVars, shareVars, quantileVars>>

(***************************************************************************)
(* Feature toggles: the toggle list, the two drafts of the add form and    *)
(* the handlers of the list.                                               *)
(***************************************************************************)

\* Events handled by the toggle section in one run.
MaxEvents == 5
\* Greatest reading of Date.now(); the clock starts at 0.
MaxClock == 1

DEFAULT_TOGGLES ==
    << [id |-> "quick-withdrawal",
        name |-> "Quick Withdrawal CTA",
        enabled |-> TRUE,
        rollout |-> FromInt(100),
        description |-> "Shows a faster withdrawal call-to-action on cashier screens."],
       [id |-> "new-lobby-banner",
        name |-> "New Lobby Promo Banner",
        enabled |-> FALSE,
        rollout |-> FromInt(20),
        description |-> "Tests a new homepage banner for high-value campaign traffic."] >>

UpperCase == "ABCDEFGHIJKLMNOPQRSTUVWXYZ"
LowerCase == "abcdefghijklmnopqrstuvwxyz"

\* String.prototype.toLowerCase on one character
toLowerCaseChar(c) ==
    IF \E i \in 1..Len(UpperCase) : SubSeq(UpperCase, i, i) = c
    THEN LET i == CHOOSE i \in 1..Len(UpperCase) : SubSeq(UpperCase, i, i) = c
         IN SubSeq(LowerCase, i, i)
    ELSE c

\* the character class [a-z0-9]
IsLowerAlphanumeric(c) ==
    IsDigit(c) \/ \E i \in 1..Len(LowerCase) : SubSeq(LowerCase, i, i) = c

RECURSIVE slugFrom(_, _, _)
\* name.toLowerCase().replace(/[^a-z0-9]+/g, "-") from position i on;
\* inRun: the character before position i belongs to a run being replaced.
slugFrom(name, i, inRun) ==
    IF i > Len(name) THEN ""
    ELSE LET c == toLowerCaseChar(SubSeq(name, i, i))
         IN IF IsLowerAlphanumeric(c)
            THEN c \o slugFrom(name, i + 1, FALSE)
            ELSE (IF inRun THEN "" ELSE "-") \o slugFrom(name, i + 1, TRUE)

slug(name) == slugFrom(name, 1, FALSE)

\* `${slug}-${Date.now()}`
toggleId(name, t) == slug(name) \o "-" \o ToString(t)

\* A faulty new toggle: created live.
createdToggleEnabled(name, t, description) ==
    [id |-> toggleId(name, t), name |-> name, enabled |-> TRUE,
     rollout |-> FromInt(0), description |-> Trim(description)]

\* The object addToggle puts in front of the list.
createdToggle(name, t, description) ==
    [id |-> toggleId(name, t), name |-> name, enabled |-> FALSE,
     rollout |-> FromInt(0), description |-> Trim(description)]

\* useState initialisers of the toggle section; the earlier variant has none.
InitToggleState ==
    /\ toggles = (IF variant = "page" THEN DEFAULT_TOGGLES ELSE <<>>)
    /\ newToggleName = ""
    /\ newToggleDescription = ""
    /\ toggleError = ""
    /\ now = 0
    /\ events = 0

\* What the user can type in the name and description drafts.
NameTokens == {" ", "A B", "a-b"}
DescriptionTokens == {" promo "}
\* What the rollout input can hand to its onChange.
RolloutTokens == {"150", "12.5", "-3", ""}

toggleEvent ==
    /\ mounted
    /\ variant = "page"
    /\ events < MaxEvents
    /\ events' = events + 1
    /\ UNCHANGED <<calculatorVars, shareVars, quantileVars>>

\* onChange of the name draft
onNameChange(text) ==
    /\ toggleEvent
    /\ newToggleName' = text
    /\ toggleError' = (IF toggleError # "" THEN "" ELSE toggleError)
    /\ UNCHANGED <<toggles, newToggleDescription, now>>

\* onChange of the description draft
onDescriptionChange(text) ==
    /\ toggleEvent
    /\ newToggleDescription' = text
    /\ UNCHANGED <<toggles, newToggleName, toggleError, now>>

addToggle ==
    /\ toggleEvent
    /\ LET name == Trim(newToggleName)
       IN IF name = ""
          THEN /\ toggleError' = "Toggle name is required."
               /\ UNCHANGED <<toggles, newToggleName, newToggleDescription, now>>
          ELSE \E t \in now..MaxClock :
                 /\ now' = t
                 /\ toggles' = <<createdToggle(name, t, newToggleDescription)>> \o toggles
                 /\ newToggleName' = ""
                 /\ newToggleDescription' = ""
                 /\ toggleError' = ""

\* current.map((toggle) => (toggle.id === id ? { ...toggle, [key]: value } : toggle))
updateToggle(id, key, value) ==
    /\ toggleEvent
    /\ toggles' = [i \in 1..Len(toggles) |->
                      IF toggles[i].id = id
                      THEN [toggles[i] EXCEPT ![key] = value]
                      ELSE toggles[i]]
    /\ UNCHANGED <<newToggleName, newToggleDescription, toggleError, now>>

\* A faulty filter: the first toggle goes, whatever its identifier.
withoutFirst(list, id) == IF list = <<>> THEN <<>> ELSE Tail(list)

RECURSIVE withoutId(_, _)
\* current.filter((toggle) => toggle.id !== id)
withoutId(list, id) ==
    IF list = <<>> THEN <<>>
    ELSE (IF Head(list).id # id THEN <<Head(list)>> ELSE <<>>) \o withoutId(Tail(list), id)

removeToggle(id) ==
    /\ toggleEvent
    /\ toggles' = withoutId(toggles, id)
    /\ UNCHANGED <<newToggleName, newToggleDescription, toggleError, now>>

\* Math.max(0, Math.min(100, value)) for a finite value, else 0
nextRollout(text) ==
    LET value == StringToNumber(text)
    IN IF IsFinite(value) THEN Max(FromInt(0), Min(FromInt(100), value)) ELSE FromInt(0)

\* onChange of the status checkbox
onEnabledChange(id, checked) == updateToggle(id, "enabled", checked)

\* onChange of the rollout input
onRolloutChange(id, text) == updateToggle(id, "rollout", nextRollout(text))

\* The identifiers the handlers can be called with: those on screen, and one
\* that matches no toggle.
ToggleIds == {toggles[i].id : i \in 1..Len(toggles)} \cup {"no-such-toggle"}

(***************************************************************************)
(* Share links: URLSearchParams writes the form values into a query string *)
(* (application/x-www-form-urlencoded) and reads them back from the        *)
(* address of the page.  Strings are over printable ASCII.                 *)
(***************************************************************************)

\* The characters with codes 32..95 and 97..126, in code order.
AsciiFromSpace == " !\"#$%&'()*+,-./0123456789:;<=>?@ABCDEFGHIJKLMNOPQRSTUVWXYZ[\\]^_"
AsciiFromLowerA == LowerCase \o "{|}~"
HexDigits == "0123456789ABCDEF"

IndexIn(table, c) ==
    IF \E i \in 1..Len(table) : SubSeq(table, i, i) = c
    THEN CHOOSE i \in 1..Len(table) : SubSeq(table, i, i) = c
    ELSE 0

\* the code of a character, 0 when it is outside the tables
charCode(c) ==
    IF IndexIn(AsciiFromSpace, c) > 0 THEN 31 + IndexIn(AsciiFromSpace, c)
    ELSE IF IndexIn(AsciiFromLowerA, c) > 0 THEN 96 + IndexIn(AsciiFromLowerA, c)
    ELSE 0

\* the character of a code; codes outside the tables stand for themselves
\* as "?" (no string of the model holds one)
fromCharCode(code) ==
    IF code >= 32 /\ code <= 95 THEN SubSeq(AsciiFromSpace, code - 31, code - 31)
    ELSE IF code >= 97 /\ code <= 126 THEN SubSeq(AsciiFromLowerA, code - 96, code - 96)
    ELSE "?"

\* %XX with upper-case hexadecimal digits
percentEncode(c) ==
    "%" \o SubSeq(HexDigits, (charCode(c) \div 16) + 1, (charCode(c) \div 16) + 1)
        \o SubSeq(HexDigits, (charCode(c) % 16) + 1, (charCode(c) % 16) + 1)

\* the characters the urlencoded serializer leaves as they are
IsUrlEncodedSafe(c) ==
    \/ IsLowerAlphanumeric(c)
    \/ IndexIn(UpperCase, c) > 0
    \/ c \in {"*", "-", ".", "_"}

\* A faulty serializer: the plus sign is written as it is.
serializeCharKeepingPlus(c) ==
    IF c = " " \/ c = "+" THEN "+"
    ELSE IF IsUrlEncodedSafe(c) THEN c
    ELSE percentEncode(c)

\* The urlencoded serializer on one character: a space becomes "+", letters,
\* digits and * - . _ stay, every other character becomes %XX.
serializeChar(c) ==
    IF c = " " THEN "+"
    ELSE IF IsUrlEncodedSafe(c) THEN c
    ELSE percentEncode(c)

RECURSIVE serializeFrom(_, _)
serializeFrom(str, i) ==
    IF i > Len(str) THEN ""
    ELSE serializeChar(SubSeq(str, i, i)) \o serializeFrom(str, i + 1)

RECURSIVE joinPairsFrom(_, _)
\* URLSearchParams.prototype.toString after one set(key, values[key]) per key
joinPairsFrom(formValues, i) ==
    IF i > Len(FORM_VALUE_KEYS) THEN ""
    ELSE (IF i > 1 THEN "&" ELSE "")
         \o serializeFrom(FORM_VALUE_KEYS[i], 1) \o "="
         \o serializeFrom(formValues[FORM_VALUE_KEYS[i]], 1)
         \o joinPairsFrom(formValues, i + 1)

valuesToQueryString(formValues) == joinPairsFrom(formValues, 1)

\* the value of a hexadecimal digit of either case, -1 for any other character
hexValue(c) ==
    IF IsDigit(c) THEN DigitVal(c)
    ELSE IF IndexIn("ABCDEF", c) > 0 THEN 9 + IndexIn("ABCDEF", c)
    ELSE IF IndexIn("abcdef", c) > 0 THEN 9 + IndexIn("abcdef", c)
    ELSE -1

RECURSIVE decodeFrom(_, _)
\* The urlencoded parser on a name or a value: "+" is a space, %XX with two
\* hexadecimal digits is the character of that code, anything else stays.
decodeFrom(str, i) ==
    IF i > Len(str) THEN ""
    ELSE LET c == SubSeq(str, i, i)
         IN IF c = "+" THEN " " \o decodeFrom(str, i + 1)
            ELSE IF c = "%" /\ i + 2 <= Len(str)
                    /\ hexValue(SubSeq(str, i + 1, i + 1)) >= 0
                    /\ hexValue(SubSeq(str, i + 2, i + 2)) >= 0
            THEN fromCharCode(16 * hexValue(SubSeq(str, i + 1, i + 1))
                              + hexValue(SubSeq(str, i + 2, i + 2)))
                 \o decodeFrom(str, i + 3)
            ELSE c \o decodeFrom(str, i + 1)

\* position of the first occurrence of character c in str at or after i,
\* Len(str) + 1 when there is none
RECURSIVE indexOfFrom(_, _, _)
indexOfFrom(str, c, i) ==
    IF i > Len(str) \/ SubSeq(str, i, i) = c THEN i
    ELSE indexOfFrom(str, c, i + 1)

\* one name=value piece of a query string
parsePair(piece) ==
    LET eq == indexOfFrom(piece, "=", 1)
    IN [name |-> decodeFrom(SubSeq(piece, 1, eq - 1), 1),
        value |-> decodeFrom(SubSeq(piece, eq + 1, Len(piece)), 1)]

RECURSIVE parsePairsFrom(_, _)
\* the pairs of the pieces between "&", empty pieces skipped
parsePairsFrom(str, i) ==
    IF i > Len(str) THEN <<>>
    ELSE LET amp == indexOfFrom(str, "&", i)
         IN (IF amp > i THEN <<parsePair(SubSeq(str, i, amp - 1))>> ELSE <<>>)
            \o parsePairsFrom(str, amp + 1)

\* new URLSearchParams(window.location.search): a leading "?" is dropped
URLSearchParams(search) ==
    parsePairsFrom(IF Len(search) > 0 /\ SubSeq(search, 1, 1) = "?"
                   THEN SubSeq(search, 2, Len(search)) ELSE search, 1)

\* searchParams.get for every form key: <<>> for null, else the value of
\* the first pair of that name
searchParamsGet(pairs) ==
    [key \in FieldKeys |->
        IF \E i \in 1..Len(pairs) : pairs[i].name = key
        THEN <<pairs[CHOOSE i \in 1..Len(pairs) :
                        /\ pairs[i].name = key
                        /\ \A j \in 1..(i - 1) : pairs[j].name # key].value>>
        ELSE <<>>]

\* What the six inputs can hold when a link is made.
ShareTokens ==
    [baselineRate |-> {"8", "1+1", " "},
     minDetectableUplift |-> {"10", "5 0"},
     significance |-> {"5", "50%"},
     power |-> {"80", "a&b=c", ""},
     dailyVisitors |-> {"12000", "1e3"},
     variantTraffic |-> {"50", "12.5"}]

ShareValues ==
    [baselineRate : ShareTokens.baselineRate,
     minDetectableUplift : ShareTokens.minDetectableUplift,
     significance : ShareTokens.significance,
     power : ShareTokens.power,
     dailyVisitors : ShareTokens.dailyVisitors,
     variantTraffic : ShareTokens.variantTraffic]

\* Query strings put in the address bar by hand.
AddressTokens ==
    {"", "baselineRate=60", "power=+&significance=%20&dailyVisitors",
     "baselineRate=1&baselineRate=2", "variantTraffic=%zz&minDetectableUplift=%2b7"}

InitShareState ==
    /\ shared = Null
    /\ query = <<>>
    /\ opened = Null

\* handleShareLink: the query string goes into the address bar.
handleShareLink ==
    /\ shared # Null
    /\ query = <<>>
    /\ query' = <<valuesToQueryString(shared)>>
    /\ UNCHANGED <<shared, opened>>
    /\ UNCHANGED <<calculatorVars, toggleVars, quantileVars>>

\* The address is typed by hand instead.
editAddress(search) ==
    /\ query = <<>>
    /\ query' = <<search>>
    /\ shared' = Null
    /\ UNCHANGED opened
    /\ UNCHANGED <<calculatorVars, toggleVars, quantileVars>>

\* A page is opened at the address: readInitialValuesFromLocation.
openAddress ==
    /\ query # <<>>
    /\ opened = Null
    /\ opened' = readInitialValuesFromLocation(
                     TRUE, searchParamsGet(URLSearchParams("?" \o query[1])))
    /\ UNCHANGED <<shared, query>>
    /\ UNCHANGED <<calculatorVars, toggleVars, quantileVars>>

NextShare ==
    \/ handleShareLink
    \/ \E search \in AddressTokens : editAddress(search)
    \/ openAddress

(***************************************************************************)
(* inverseNormalCdf called on its own.                                     *)
(***************************************************************************)

\* The arguments tried are the hundredths 0.00 .. MaxHundredths / 100.
MaxHundredths == 100

InitQuantileState ==
    /\ probability = Null
    /\ quantile = Null

callInverseNormalCdf ==
    /\ probability # Null
    /\ quantile = Null
    /\ quantile' = inverseNormalCdf(probability)
    /\ UNCHANGED probability
    /\ UNCHANGED <<calculatorVars, toggleVars, shareVars>>

Init ==
    /\ InitCalculator
    /\ InitToggleState
    /\ InitShareState
    /\ InitQuantileState

Next ==
    \/ handleSubmit
    \/ \E key \in FieldKeys : \E value \in InputTokens[key] : updateValue(key, value)
    \/ handleResetDefaults

Spec == Init /\ [][Next]_vars

\* The calculator of a page opened without query string.
InitCalculatorAtDefaults ==
    /\ variant = "page"
    /\ history = [last |-> "none", submitted |-> FALSE]
    /\ errors = NoErrors
    /\ globalError = ""
    /\ InitPageFrom(readInitialValuesFromLocation(TRUE, NoSearchParams))

\* The toggle section of that page.
InitToggles ==
    /\ InitCalculatorAtDefaults
    /\ InitToggleState
    /\ InitShareState
    /\ InitQuantileState

NextToggles ==
    \/ \E text \in NameTokens : onNameChange(text)
    \/ \E text \in DescriptionTokens : onDescriptionChange(text)
    \/ addToggle
    \/ \E id \in ToggleIds : removeToggle(id)
    \/ \E id \in ToggleIds : \E checked \in BOOLEAN : onEnabledChange(id, checked)
    \/ \E id \in ToggleIds : \E text \in RolloutTokens : onRolloutChange(id, text)

SpecToggles == InitToggles /\ [][NextToggles]_vars

\* Share links: the form holds some values when the link is asked for, or
\* the address is typed by hand.
InitShare ==
    /\ InitCalculatorAtDefaults
    /\ InitToggleState
    /\ InitQuantileState
    /\ \E v \in ShareValues : shared = v
    /\ query = <<>>
    /\ opened = Null

SpecShare == InitShare /\ [][NextShare]_vars

\* inverseNormalCdf on each of the hundredths.
InitQuantile ==
    /\ InitCalculatorAtDefaults
    /\ InitToggleState
    /\ InitShareState
    /\ \E hundredths \in 0..MaxHundredths : probability = Dec(1, hundredths, 2)
    /\ quantile = Null

NextQuantile == callInverseNormalCdf

SpecQuantile == InitQuantile /\ [][NextQuantile]_vars

(***************************************************************************)
(* Properties.  Comparisons on the claim side are written with Lt only.    *)
(***************************************************************************)

\* C1: after any handler that ran validate, a field carries an error message
\* if and only if the number read from it is not finite or lies outside the
\* field's domain (baselineRate 0 < x < 100, minDetectableUplift
\* 0 < x <= 500, significance 0 < x < 50, power 50 < x < 99.9, dailyVisitors
\* an integer >= 1, variantTraffic 0 < x < 100).  Each field is decided from
\* its own text alone; "99.9" is a power error, "99.89" is not, and "12.5" is
\* a dailyVisitors error.
C1_FieldErrorIffOutsideDomain ==
    lastRun # "none" =>
        LET x == [f \in FieldKeys |-> StringToNumber(values[f])]
            inDomain ==
                [baselineRate |->
                    Lt(Zero, x.baselineRate) /\ Lt(x.baselineRate, FromInt(100)),
                 minDetectableUplift |->
                    Lt(Zero, x.minDetectableUplift)
                        /\ ~Lt(FromInt(500), x.minDetectableUplift),
                 significance |->
                    Lt(Zero, x.significance) /\ Lt(x.significance, FromInt(50)),
                 power |->
                    Lt(FromInt(50), x.power) /\ Lt(x.power, Dec(1, 999, 1)),
                 dailyVisitors |->
                    IsInteger(x.dailyVisitors) /\ ~Lt(x.dailyVisitors, FromInt(1)),
                 variantTraffic |->
                    Lt(Zero, x.variantTraffic) /\ Lt(x.variantTraffic, FromInt(100))]
        IN  /\ \A f \in FieldKeys :
                (errors[f] # "") <=> ~(IsFinite(x[f]) /\ inDomain[f])
            /\ (values.power = "99.9" => errors.power # "")
            /\ (values.power = "99.89" => errors.power = "")
            /\ (values.dailyVisitors = "12.5" => errors.dailyVisitors # "")

\* validate ran on power "99.9" and dailyVisitors "12.5" beside valid fields.
C1_Witness ==
    /\ lastRun = "rejected"
    /\ values.power = "99.9" /\ errors.power # ""
    /\ values.dailyVisitors = "12.5" /\ errors.dailyVisitors # ""
    /\ values.baselineRate = "8" /\ errors.baselineRate = ""

\* C2: after any handler that ran validate, the global error is set if and
\* only if (baselineRate/100) * (1 + uplift/100) is finite and at least 1,
\* whatever the per-field errors are, and is the empty string otherwise;
\* baselineRate 60 with uplift 100 sets it.
C2_GlobalErrorIffRateReachesOne ==
    lastRun # "none" =>
        LET rate ==
                Mul(Div(StringToNumber(values.baselineRate), FromInt(100)),
                    Add(FromInt(1),
                        Div(StringToNumber(values.minDetectableUplift), FromInt(100))))
        IN  /\ (globalError # "") <=> (IsFinite(rate) /\ ~Lt(rate, FromInt(1)))
            /\ (values.baselineRate = "60" /\ values.minDetectableUplift = "100"
                    => globalError # "")

\* The global error is set for 60 and 100 while a field error is set too.
C2_Witness ==
    /\ lastRun = "rejected"
    /\ values.baselineRate = "60" /\ values.minDetectableUplift = "100"
    /\ globalError # ""
    /\ errors.power # ""

\* C3: after runCalculation the result is null if and only if a field error
\* or the global error is set; when validation fails the computation is not
\* run, and when it passes a result is produced.
C3_ResultAbsentIffErrors ==
    lastRun # "none" =>
        /\ (result = Null) <=> hasErrors
        /\ hasErrors => lastRun = "rejected"
        /\ ~hasErrors => lastRun = "computed"

\* C4: in every reachable state the page has rendered without an Error
\* leaving the computation, and a non-null result was computed from input
\* values for which validate reports no field error and no global error.
C4_ResultOnlyFromValidatedInputs ==
    /\ mounted
    /\ lastRun # "threw"
    /\ result # Null =>
            /\ resultFrom # Null
            /\ ~failsValidation(validate(resultFrom))

\* C5: for every input record that passes validation, 1 - alpha/2 and power
\* lie strictly between 0 and 1, and the calculator's call of
\* inverseNormalCdf does not throw.
C5_QuantileArgumentsInsideUnitInterval ==
    LET v == validate(values)
        upper == Sub(FromInt(1), Div(v.parsed.significance, FromInt(2)))
    IN  ~failsValidation(v) =>
            /\ Lt(Zero, upper) /\ Lt(upper, FromInt(1))
            /\ Lt(Zero, v.parsed.power) /\ Lt(v.parsed.power, FromInt(1))
            /\ lastRun # "threw"

\* C6: every result held has totalSampleSize equal to 2 * sampleSizePerGroup
\* (the same number; a NaN result, which only unvalidated inputs give, has
\* NaN in both).
C6_TotalIsTwiceSampleSize ==
    result # Null =>
        result.totalSampleSize = Mul(FromInt(2), result.sampleSizePerGroup)

\* A handler computed a finite, positive sample size.
C6_Witness ==
    /\ lastRun = "computed"
    /\ result # Null
    /\ IsFinite(result.sampleSizePerGroup)
    /\ Lt(FromInt(1), result.sampleSizePerGroup)
    /\ Lt(result.sampleSizePerGroup, result.totalSampleSize)

\* C7: every result held has durationDays equal to
\* ceil(max(n / (dailyVisitors * (1 - variantTraffic)),
\*          n / (dailyVisitors * variantTraffic)))
\* for its sampleSizePerGroup n, which is the whole number of days the arm
\* with less daily traffic needs; nothing caps it.
C7_DurationIsCeilOfSlowerArm ==
    result # Null =>
        LET parsed == parseValues(resultFrom)
            n == result.sampleSizePerGroup
            controlDaily ==
                Mul(parsed.dailyVisitors, Sub(FromInt(1), parsed.variantTraffic))
            variantDaily == Mul(parsed.dailyVisitors, parsed.variantTraffic)
        IN  /\ result.durationDays
                    = Ceil(Max(Div(n, controlDaily), Div(n, variantDaily)))
            /\ result.durationDays
                    = Ceil(Div(n, Min(controlDaily, variantDaily)))

\* A result computed for an uneven split (20% to the variant).
C7_Witness ==
    /\ lastRun = "computed"
    /\ result # Null
    /\ resultFrom.variantTraffic = "20"
    /\ IsFinite(result.durationDays)
    /\ Lt(Zero, result.durationDays)

\* C8: every result held has sampleSizePerGroup equal to
\* ceil(numerator^2 / diff^2) with p2 = p1 * (1 + u), pooled = (p1 + p2) / 2,
\* diff = |p2 - p1| and numerator = zAlpha * sqrt(2 pooled (1 - pooled))
\* + zBeta * sqrt(p1 (1 - p1) + p2 (1 - p2)), zAlpha and zBeta being the
\* quantiles at 1 - alpha/2 and at power; and for every valid input
\* calculateResult and the inline computation of the earlier page variant
\* return the same.
C8_SampleSizeFormula ==
    /\ result # Null =>
            LET parsed == parseValues(resultFrom)
                p1 == parsed.baselineRate
                p2 == Mul(p1, Add(FromInt(1), parsed.uplift))
                zAlpha ==
                    inverseNormalCdf(Sub(FromInt(1), Div(parsed.significance, FromInt(2))))
                zBeta == inverseNormalCdf(parsed.power)
                pooled == Div(Add(p1, p2), FromInt(2))
                diff == Abs(Sub(p2, p1))
                numerator ==
                    Add(Mul(zAlpha,
                            Sqrt(Mul(Mul(FromInt(2), pooled), Sub(FromInt(1), pooled)))),
                        Mul(zBeta,
                            Sqrt(Add(Mul(p1, Sub(FromInt(1), p1)),
                                     Mul(p2, Sub(FromInt(1), p2))))))
            IN  result.sampleSizePerGroup
                    = Ceil(Div(Mul(numerator, numerator), Mul(diff, diff)))
    /\ LET v == validate(values)
       IN  ~failsValidation(v) =>
                calculateResult(v.parsed) = runCalculationInline(v.parsed)

\* The earlier page variant computed a result for uplift 100.
C8_Witness ==
    /\ variant = "part_000"
    /\ lastRun = "computed"
    /\ result # Null
    /\ resultFrom.minDetectableUplift = "100"
    /\ IsFinite(result.sampleSizePerGroup)

\* C9: every result computed from inputs that pass validation has a positive
\* integer sampleSizePerGroup, a positive integer durationDays and an
\* expectedVariantRate strictly between 0 and 1.
C9_ResultFieldsInRange ==
    (result # Null /\ resultFrom # Null /\ ~failsValidation(validate(resultFrom))) =>
        /\ IsInteger(result.sampleSizePerGroup)
        /\ Lt(Zero, result.sampleSizePerGroup)
        /\ IsInteger(result.durationDays)
        /\ Lt(Zero, result.durationDays)
        /\ Lt(Zero, result.expectedVariantRate)
        /\ Lt(result.expectedVariantRate, FromInt(1))

\* Uplift texts compared with the uplift of the held result.
UpliftProbes == {"10", "100", "499", "500"}

\* C10: with the other five inputs unchanged, a valid uplift smaller than
\* the one the held result was computed from gives a strictly greater
\* sampleSizePerGroup.
C10_SmallerUpliftStrictlyLargerSample ==
    lastRun = "computed" =>
        \A u1 \in UpliftProbes :
            LET v == validate([resultFrom EXCEPT !.minDetectableUplift = u1])
            IN  (/\ ~failsValidation(v)
                 /\ Lt(StringToNumber(u1), StringToNumber(resultFrom.minDetectableUplift)))
                    => Lt(result.sampleSizePerGroup,
                          calculateResult(v.parsed).sampleSizePerGroup)

\* Power and significance texts compared with those of the held result.
PowerProbes == {"79.99", "90"}
SignificanceProbes == {"4.99", "10"}

\* C11: with the other five inputs unchanged, a valid power below (above)
\* the one the held result was computed from gives a strictly smaller
\* (greater) sampleSizePerGroup, and a valid significance below (above) the
\* held one gives a strictly greater (smaller) sampleSizePerGroup.
C11_PowerAndSignificanceStrictlyMonotone ==
    lastRun = "computed" =>
        /\ \A w \in PowerProbes :
                LET v == validate([resultFrom EXCEPT !.power = w])
                    n == calculateResult(v.parsed).sampleSizePerGroup
                    probe == StringToNumber(w)
                    held == StringToNumber(resultFrom.power)
                IN  ~failsValidation(v) =>
                        /\ Lt(probe, held) => Lt(n, result.sampleSizePerGroup)
                        /\ Lt(held, probe) => Lt(result.sampleSizePerGroup, n)
        /\ \A a \in SignificanceProbes :
                LET v == validate([resultFrom EXCEPT !.significance = a])
                    n == calculateResult(v.parsed).sampleSizePerGroup
                    probe == StringToNumber(a)
                    held == StringToNumber(resultFrom.significance)
                IN  ~failsValidation(v) =>
                        /\ Lt(probe, held) => Lt(result.sampleSizePerGroup, n)
                        /\ Lt(held, probe) => Lt(n, result.sampleSizePerGroup)

\* C12: a result on screen is the calculation applied to the form values
\* currently held; no result computed from an earlier input stays visible
\* after an input change.
C12_ResultIsOfCurrentValues ==
    result # Null =>
        /\ resultFrom = values
        /\ LET r == calculateResult(parseValues(values))
           IN  ~r.threw /\ result = ResultOf(r)

\* C13: in every state reached through addToggle, updateToggle and
\* removeToggle no two toggles of the list have the same identifier, also
\* when two toggles are created at the same clock millisecond with the same
\* name or with names that have the same slug.
C13_ToggleIdsUnique ==
    \A i \in 1..Len(toggles) : \A j \in 1..Len(toggles) :
        i # j => toggles[i].id # toggles[j].id

\* C14: whatever is entered in a rollout input, every toggle's rollout is
\* an integer from 0 to 100.
C14_RolloutIsIntegerPercentage ==
    \A i \in 1..Len(toggles) :
        /\ IsInteger(toggles[i].rollout)
        /\ ~Lt(toggles[i].rollout, FromInt(0))
        /\ ~Lt(FromInt(100), toggles[i].rollout)

\* A string that is empty or holds nothing but spaces.
IsBlank(str) == \A i \in 1..Len(str) : SubSeq(str, i, i) = " "

\* C15: the values a page starts with hold, for every field, the raw string
\* of the query parameter when it is present and not blank, and the default
\* otherwise; a page opened at a share link starts with the values the link
\* was made from when none of them is blank.
C15_ParametersVerbatimAndLinkRoundTrip ==
    opened # Null =>
        /\ LET got == searchParamsGet(URLSearchParams(query[1]))
           IN \A key \in FieldKeys :
                opened[key] = (IF got[key] # <<>> /\ ~IsBlank(got[key][1])
                               THEN got[key][1] ELSE DEFAULT_VALUES[key])
        /\ (shared # Null /\ \A key \in FieldKeys : ~IsBlank(shared[key]))
              => opened = shared

\* A link made from values with a plus sign, an ampersand, an equals sign
\* and a percent sign has been opened.
C15_Witness ==
    /\ opened # Null
    /\ shared # Null
    /\ \A key \in FieldKeys : ~IsBlank(shared[key])
    /\ shared.baselineRate = "1+1"
    /\ shared.power = "a&b=c"
    /\ shared.significance = "50%"
    /\ shared.minDetectableUplift = "5 0"

\* C16: inverseNormalCdf(0.5) returns exactly 0.
C16_QuantileOfOneHalfIsZero ==
    (quantile # Null /\ Eq(Add(probability, probability), FromInt(1)))
        => quantile = Zero

\* inverseNormalCdf has been called on 0.5 and has returned.
C16_Witness ==
    /\ quantile # Null
    /\ probability = StringToNumber("0.5")
    /\ ~IsThrown(quantile)

\* The calculator shows what it showed before the step.
CalculatorKept ==
    /\ values' = values
    /\ errors' = errors
    /\ globalError' = globalError
    /\ result' = result

\* The list after the step is the list before it without the toggles of
\* that identifier, the others as they were and in their order.
OnlyMatchingRemoved(id) ==
    LET Other(toggle) == toggle.id # id
    IN /\ toggles' = SelectSeq(toggles, Other)
       /\ (\A i \in 1..Len(toggles) : Other(toggles[i])) => toggles' = toggles

\* The list after the step has the toggles of the list before it, each at
\* its place; one whose identifier differs is as it was, one of that
\* identifier differs at most in the field written, which holds the value.
OnlyMatchingUpdated(id, key, value) ==
    /\ Len(toggles') = Len(toggles)
    /\ \A i \in 1..Len(toggles) :
         IF toggles[i].id # id
         THEN toggles'[i] = toggles[i]
         ELSE /\ toggles'[i][key] = value
              /\ \A field \in DOMAIN toggles[i] \ {key} :
                    toggles'[i][field] = toggles[i][field]
    /\ (\A i \in 1..Len(toggles) : toggles[i].id # id) => toggles' = toggles

\* C18: removeToggle and updateToggle touch only toggles of the identifier
\* they are given: every other toggle keeps its fields and its place among
\* the others, the calculator's values, errors and result stay, and an
\* identifier that no toggle has leaves the list as it was.
C18_OnlyMatchingToggleAffected ==
    [][\A id \in ToggleIds :
          /\ removeToggle(id) => (OnlyMatchingRemoved(id) /\ CalculatorKept)
          /\ \A checked \in BOOLEAN :
               updateToggle(id, "enabled", checked)
                   => (OnlyMatchingUpdated(id, "enabled", checked) /\ CalculatorKept)
          /\ \A text \in RolloutTokens :
               updateToggle(id, "rollout", nextRollout(text))
                   => (OnlyMatchingUpdated(id, "rollout", nextRollout(text))
                       /\ CalculatorKept)]_vars

\* A toggle was added, the first default toggle removed, the second one's
\* rollout raised to 100 and the added one switched on.
C18_Witness ==
    /\ Len(toggles) = 2
    /\ toggles[1].id = "a-b-0"
    /\ toggles[1].enabled
    /\ toggles[2] = [DEFAULT_TOGGLES[2] EXCEPT !.rollout = FromInt(100)]

\* C19: addToggle with a blank name draft is rejected, the list and the two
\* drafts stay and toggleError is non-empty; with any other name draft it
\* puts exactly one toggle in front of the list, switched off and with
\* rollout 0, and clears the two drafts and toggleError.
C19_AddToggleRejectsBlankElsePrependsOne ==
    [][addToggle =>
          IF IsBlank(newToggleName)
          THEN /\ toggles' = toggles
               /\ newToggleName' = newToggleName
               /\ newToggleDescription' = newToggleDescription
               /\ toggleError' # ""
          ELSE /\ Len(toggles') = Len(toggles) + 1
               /\ Tail(toggles') = toggles
               /\ Head(toggles').enabled = FALSE
               /\ Head(toggles').rollout = Zero
               /\ newToggleName' = ""
               /\ newToggleDescription' = ""
               /\ toggleError' = ""]_vars

\* A toggle was added, in front of the two default ones, and the next
\* submit, with the name draft empty again, was rejected.
C19_Witness ==
    /\ Len(toggles) = 3
    /\ toggles[1].name = "a-b"
    /\ toggles[1].description = "promo"
    /\ ~toggles[1].enabled
    /\ toggles[1].rollout = Zero
    /\ toggleError # ""
    /\ newToggleName = ""
    /\ newToggleDescription = ""

\* C20: an edit runs validation and the calculation exactly when a result
\* or an error is on screen.  After an edit of the variant that starts
\* without result, made before the first submit, there are no errors and no
\* result; after any other edit the field errors and the global error are
\* the ones validate reports for the values now held.
C20_EditsValidateOnceResultOrErrorShown ==
    (mounted /\ history.last = "edit") =>
        IF variant = "part_000" /\ ~history.submitted
        THEN /\ errors = NoErrors
             /\ globalError = ""
             /\ result = Null
        ELSE LET v == validate(values)
             IN /\ errors = v.nextErrors
                /\ globalError = v.nextGlobalError

====
